---- MODULE Spec2Model ----
(***************************************************************************)
(* Authentication subsystem of the Multilingual Mandi backend:             *)
(* AuthService (register, login, refreshToken, logout,                     *)
(* setLanguagePreference), the authenticateToken middleware and the        *)
(* /api/auth routes, over a users table with a unique email column.        *)
(*                                                                         *)
(* Strings whose length or shape the code inspects (email, password, name, *)
(* language code) are sequences of one-character strings.                  *)
(***************************************************************************)
EXTENDS Integers, Sequences, FiniteSets, TLC

VARIABLES env, users, reg, now, ticks, last, client, startup

vars == <<env, users, reg, now, ticks, last, client, startup>>

(***************************************************************************)
(* Bounds of the model.                                                    *)
(***************************************************************************)
\* number of register calls that can be in flight at the same time
NumCalls == 2
\* number of times the clock is advanced in one behaviour
MaxTicks == 1

(***************************************************************************)
(* Program constants.                                                      *)
(***************************************************************************)
\* expiresIn: '15m', in seconds
AccessTtl == 900
\* expiresIn: '7d', in seconds
RefreshTtl == 604800
\* z.string().min(8) and password.trim().length < 8
MinPassword == 8
\* z.string().min(2) and name.trim().length < 2
MinName == 2
\* preferredLanguage: z.string().min(2); language.length < 2
MinLanguage == 2

DefaultJwtSecret == "test-secret-key-for-development"
DefaultRefreshSecret == "test-refresh-secret-key-for-development"

\* an environment variable that is not set
Unset == "<unset>"
\* an optional value: absent (JavaScript undefined) or present
Undefined == <<>>
Some(v) == <<v>>

Calls == 1..NumCalls

(***************************************************************************)
(* Characters and strings.                                                 *)
(***************************************************************************)
Letters ==
    {"a","b","c","d","e","f","g","h","i","j","k","l","m","n","o","p","q",
     "r","s","t","u","v","w","x","y","z",
     "A","B","C","D","E","F","G","H","I","J","K","L","M","N","O","P","Q",
     "R","S","T","U","V","W","X","Y","Z"}

Digits == {"0","1","2","3","4","5","6","7","8","9"}

AlNum == Letters \cup Digits

\* typeof v === 'string': a sequence of characters
IsString(v) == \A i \in 1..Len(v) : Len(v[i]) = 1

\* String.prototype.trim on a sequence of characters
RECURSIVE TrimStart(_)
TrimStart(s) ==
    IF s = <<>> THEN <<>>
    ELSE IF Head(s) = " " THEN TrimStart(Tail(s)) ELSE s

RECURSIVE TrimEnd(_)
TrimEnd(s) ==
    IF s = <<>> THEN <<>>
    ELSE IF s[Len(s)] = " " THEN TrimEnd(SubSeq(s, 1, Len(s) - 1)) ELSE s

Trim(s) == TrimEnd(TrimStart(s))

\* the positions of character c in s
Positions(s, c) == {i \in 1..Len(s) : s[i] = c}

\* the labels of a domain name: the pieces between the dots
RECURSIVE SplitDots(_)
SplitDots(s) ==
    LET dots == Positions(s, ".") IN
    IF dots = {} THEN <<s>>
    ELSE LET d == CHOOSE i \in dots : \A j \in dots : i <= j
         IN  <<SubSeq(s, 1, d - 1)>> \o SplitDots(SubSeq(s, d + 1, Len(s)))

\* one label of the domain part: [A-Z0-9][A-Z0-9\-]*
IsDomainLabel(l) ==
    /\ l # <<>>
    /\ l[1] \in AlNum
    /\ \A i \in 1..Len(l) : l[i] \in AlNum \cup {"-"}

\* the top-level domain: [A-Z]{2,}
IsTld(l) == Len(l) >= 2 /\ \A i \in 1..Len(l) : l[i] \in Letters

\* z.string().email():
\*   ^(?!\.)(?!.*\.\.)([A-Z0-9_'+\-\.]*)[A-Z0-9_+-]@([A-Z0-9][A-Z0-9\-]*\.)+[A-Z]{2,}$
IsEmail(s) ==
    LET ats == Positions(s, "@") IN
    /\ Cardinality(ats) = 1
    /\ LET at     == CHOOSE i \in ats : TRUE
           local  == SubSeq(s, 1, at - 1)
           domain == SubSeq(s, at + 1, Len(s))
           labels == SplitDots(domain)
       IN  /\ local # <<>>
           /\ s[1] # "."
           /\ \A i \in 1..(Len(s) - 1) : ~(s[i] = "." /\ s[i + 1] = ".")
           /\ \A i \in 1..Len(local) : local[i] \in AlNum \cup {"_", "'", "+", "-", "."}
           /\ local[Len(local)] \in AlNum \cup {"_", "+", "-"}
           /\ Len(labels) >= 2
           /\ \A i \in 1..(Len(labels) - 1) : IsDomainLabel(labels[i])
           /\ IsTld(labels[Len(labels)])

\* Array.prototype.join(', ') over a sequence of messages
RECURSIVE Join(_)
Join(msgs) ==
    IF msgs = <<>> THEN ""
    ELSE IF Len(msgs) = 1 THEN msgs[1]
    ELSE msgs[1] \o ", " \o Join(Tail(msgs))

(***************************************************************************)
(* Inputs: the strings a caller can submit.                                *)
(***************************************************************************)
EmailA == <<"a", "@", "t", ".", "i", "o">>
EmailB == <<"b", "@", "t", ".", "i", "o">>

ValidEmails == {EmailA, EmailB}

\* 'no-at-symbol.com', '@missing-local.com', 'missing-domain@.com', ''
BadEmails ==
    { <<"a", ".", "i", "o">>,
      <<"@", "t", ".", "i", "o">>,
      <<"a", "@", ".", "i", "o">>,
      <<>> }

Password1 == <<"p", "a", "s", "s", "w", "o", "r", "d">>
Password2 == <<"h", "u", "n", "t", "e", "r", "2", "2">>
\* seven characters: too short for the schema
ShortPassword == <<"w", "r", "o", "n", "g", "p", "w">>
\* eight characters, six of them after trimming
PaddedPassword == <<" ", "s", "e", "c", "r", "e", "t", " ">>

NameA == <<"A", "n", "n">>
NameB == <<"R", "a", "j">>
ShortName == <<"A">>
PaddedName == <<" ", "A">>

LangHi == <<"h", "i">>
LangEn == <<"e", "n">>
\* a code of length two that is no supported language
LangXx == <<"x", "x">>
ShortLang == <<"x">>

Phone10 == <<"9", "8", "7", "6", "5", "4", "3", "2", "1", "0">>

\* UserRegistrationData
RegistrationData(email, password, name, lang, type, phone) ==
    [email |-> email, password |-> password, name |-> name,
     preferredLanguage |-> lang, userType |-> type, phoneNumber |-> phone]

DataA == RegistrationData(EmailA, Password1, NameA, LangHi, "BUYER", Undefined)
\* the same email as DataA, every other field different
DataA2 == RegistrationData(EmailA, Password2, NameB, LangEn, "VENDOR", Some(Phone10))
DataB == RegistrationData(EmailB, Password2, NameB, LangEn, "VENDOR", Some(Phone10))

\* DataA with one field replaced
BadData ==
    {[DataA EXCEPT !.email = e] : e \in BadEmails}
    \cup {[DataA EXCEPT !.password = pw] : pw \in {ShortPassword, PaddedPassword, <<>>}}
    \cup {[DataA EXCEPT !.name = n] : n \in {ShortName, PaddedName}}
    \cup {[DataA EXCEPT !.preferredLanguage = ShortLang]}
    \cup {[DataA EXCEPT !.userType = "ADMIN"]}
    \cup {[DataA EXCEPT !.password = ShortPassword, !.name = ShortName]}

RegisterInputs == {DataA, DataA2, DataB} \cup BadData

\* registrations sent straight to the API with a phoneNumber: five digits,
\* no digit at all, and ten digits between other characters
PhoneShort == <<"1", "2", "3", "4", "5">>
PhoneWords == <<"c", "a", "l", "l">>
PhoneDashed == <<"9", "8", "7", "6", "5", "-", "4", "3", "2", "1", "0">>

PhoneInputs ==
    {DataA, DataB} \cup {[DataB EXCEPT !.phoneNumber = Some(ph)] :
                             ph \in {PhoneShort, PhoneWords, PhoneDashed}}

\* the register inputs of the specification with every route: the valid
\* ones, one that the schema rejects and one that the trimmed length rejects
SessionInputs ==
    {DataA, DataA2, DataB,
     [DataA EXCEPT !.password = ShortPassword],
     [DataA EXCEPT !.password = PaddedPassword]}

LoginEmails == ValidEmails
LoginPasswords == {Password1, Password2, <<>>}

\* a JSON array of two strings: its length is 2 and it is no string
LangArray == <<"xx", "yy">>

Languages == {LangXx, ShortLang}

\* req.body.language: a string, a value of another type, or nothing
BodyLanguages == Languages \cup {LangArray, Undefined}

\* the codes of SUPPORTED_LANGUAGES
SupportedLanguages ==
    {<<"e", "n">>, <<"h", "i">>, <<"b", "n">>, <<"t", "e">>, <<"m", "r">>,
     <<"t", "a">>, <<"g", "u">>, <<"k", "n">>, <<"m", "l">>, <<"p", "a">>}

(***************************************************************************)
(* process.env                                                             *)
(***************************************************************************)
Environments ==
    [NODE_ENV : {"production", "development"},
     JWT_SECRET : {Unset, "secret-1"},
     JWT_REFRESH_SECRET : {Unset, "secret-1", "secret-2"}]

\* process.env.JWT_SECRET || 'test-secret-key-for-development'
JwtSecret(e) ==
    IF e.JWT_SECRET = Unset THEN DefaultJwtSecret ELSE e.JWT_SECRET

\* process.env.JWT_REFRESH_SECRET || 'test-refresh-secret-key-for-development'
RefreshSecret(e) ==
    IF e.JWT_REFRESH_SECRET = Unset THEN DefaultRefreshSecret ELSE e.JWT_REFRESH_SECRET

\* (!process.env.JWT_SECRET || !process.env.JWT_REFRESH_SECRET)
\*   && process.env.NODE_ENV === 'production'
SecretsMissingInProduction(e) ==
    /\ e.JWT_SECRET = Unset \/ e.JWT_REFRESH_SECRET = Unset
    /\ e.NODE_ENV = "production"

(***************************************************************************)
(* jsonwebtoken and bcryptjs                                               *)
(***************************************************************************)
\* jwt.sign(payload, secret, {expiresIn}): the payload with iat and exp
\* added, under a signature that only the same secret verifies
JwtSign(payload, secret, ttl, t) ==
    [payload |-> payload @@ [iat |-> t, exp |-> t + ttl], sig |-> secret]

\* a verify that still takes a token at the second it expires
JwtVerifiesAtExpiry(token, secret, t) ==
    /\ token.sig = secret
    /\ t <= token.payload.exp

\* jwt.verify(token, secret) does not throw
JwtVerifies(token, secret, t) ==
    /\ token.sig = secret
    /\ t < token.payload.exp

\* decoded.type !== 'refresh'
NotRefreshType(payload) ==
    ~("type" \in DOMAIN payload /\ payload.type = "refresh")

\* jwt.sign({userId, email}, jwtSecret, {expiresIn: '15m'})
AccessToken(user, e, t) ==
    JwtSign([userId |-> user.id, email |-> user.email], JwtSecret(e), AccessTtl, t)

\* jwt.sign({userId, email, type: 'refresh'}, refreshSecret, {expiresIn: '7d'})
RefreshTokenFor(user, e, t) ==
    JwtSign([userId |-> user.id, email |-> user.email, type |-> "refresh"],
            RefreshSecret(e), RefreshTtl, t)

\* bcrypt.genSalt: a salt no stored hash has yet
GenSalt(us) == Len(us) + 1

\* bcrypt.hash(password, 12) with the salt it generated
BcryptHash(password, salt) ==
    [alg |-> "2a", cost |-> 12, salt |-> salt, digest |-> <<salt, password>>]

\* a compare that rehashes with a salt of its own
BcryptCompareOtherSalt(password, hash) ==
    BcryptHash(password, hash.salt + 1).digest = hash.digest

\* bcrypt.compare(password, hash): rehash with the salt kept in the hash
BcryptCompare(password, hash) ==
    BcryptHash(password, hash.salt).digest = hash.digest

(***************************************************************************)
(* The users table behind prisma.user.                                     *)
(***************************************************************************)
\* a create that leaves the language to the column's default
NewUserDefaultLanguage(us, data, passwordHash) ==
    [id |-> Len(us) + 1,
     email |-> data.email,
     passwordHash |-> passwordHash,
     name |-> data.name,
     userType |-> data.userType,
     preferredLanguage |-> LangEn,
     phoneNumber |-> data.phoneNumber]

\* the row a create adds; the id is generated by the table
NewUser(us, data, passwordHash) ==
    [id |-> Len(us) + 1,
     email |-> data.email,
     passwordHash |-> passwordHash,
     name |-> data.name,
     userType |-> data.userType,
     preferredLanguage |-> data.preferredLanguage,
     phoneNumber |-> data.phoneNumber]

\* a users table without the unique index
UniqueViolationOff(us, email) == FALSE

\* email VARCHAR(255) UNIQUE NOT NULL: a create with a stored email is refused
UniqueViolation(us, email) == \E i \in 1..Len(us) : us[i].email = email

\* a lookup that compares the email with the name column
FindByEmailWrongColumn(us, email) ==
    {us[i] : i \in {j \in 1..Len(us) : us[j].name = email}}

\* prisma.user.findUnique({where: {email}}): the rows found (none or one)
FindByEmail(us, email) == {us[i] : i \in {j \in 1..Len(us) : us[j].email = email}}

\* prisma.user.findUnique({where: {id}})
FindById(us, id) == {us[i] : i \in {j \in 1..Len(us) : us[j].id = id}}

\* a projection that passes the row on as it is stored
SanitizedWholeRow(user) == user

\* select: {id, email, name, userType, preferredLanguage}
Sanitized(user) ==
    [id |-> user.id, email |-> user.email, name |-> user.name,
     userType |-> user.userType, preferredLanguage |-> user.preferredLanguage]

(***************************************************************************)
(* UserRegistrationSchema.safeParse: the messages of the violated rules,   *)
(* in the order of the schema's keys.                                      *)
(***************************************************************************)
Issue(cond, msg) == IF cond THEN <<msg>> ELSE <<>>

\* the schema without the rule on preferredLanguage
SchemaErrorsNoLanguage(data) ==
    Issue(~IsEmail(data.email), "Invalid email format")
    \o Issue(Len(data.password) < MinPassword, "Password must be at least 8 characters")
    \o Issue(Len(data.name) < MinName, "Name must be at least 2 characters")
    \o Issue(data.userType \notin {"VENDOR", "BUYER"}, "Invalid enum value")

SchemaErrors(data) ==
    Issue(~IsEmail(data.email), "Invalid email format")
    \o Issue(Len(data.password) < MinPassword, "Password must be at least 8 characters")
    \o Issue(Len(data.name) < MinName, "Name must be at least 2 characters")
    \o Issue(Len(data.preferredLanguage) < MinLanguage,
             "Language code must be at least 2 characters")
    \o Issue(data.userType \notin {"VENDOR", "BUYER"}, "Invalid enum value")

Failure(msg) == [success |-> FALSE, error |-> msg]

\* register, lines 22-44: the result of a rejected input, or none
ValidationFailure(data) ==
    IF SchemaErrors(data) # <<>>
    THEN {Failure("Invalid registration data: " \o Join(SchemaErrors(data)))}
    ELSE IF Len(Trim(data.password)) < MinPassword
    THEN {Failure("Password must contain at least 8 non-whitespace characters")}
    ELSE IF Len(Trim(data.name)) < MinName
    THEN {Failure("Name must contain at least 2 non-whitespace characters")}
    ELSE {}

\* ValidationFailure over the inputs of the model, evaluated once
Validated == [data \in RegisterInputs \cup PhoneInputs |-> ValidationFailure(data)]

\* the token pair and sanitized user of a successful register or login
Success(user, e, t) ==
    [success |-> TRUE,
     user |-> Sanitized(user),
     token |-> AccessToken(user, e, t),
     refreshToken |-> RefreshTokenFor(user, e, t)]

\* token issuance without the configuration check
IssueTokensNoCheck(user, e, t) == Success(user, e, t)

\* a configuration check that reports the error and still hands out tokens
IssueTokensWithError(user, e, t) ==
    IF SecretsMissingInProduction(e)
    THEN Failure("Server configuration error")
         @@ [token |-> AccessToken(user, e, t), refreshToken |-> RefreshTokenFor(user, e, t)]
    ELSE Success(user, e, t)

\* register and login, after the user is known: the configuration check,
\* then the token pair
IssueTokens(user, e, t) ==
    IF SecretsMissingInProduction(e)
    THEN Failure("Server configuration error")
    ELSE Success(user, e, t)

(***************************************************************************)
(* The browser client: the AuthProvider's state (user, isLoading), local   *)
(* storage, the location the router shows, a navigation that               *)
(* window.location.href has asked for, and the calls of the context's      *)
(* operations that await an answer.  mounted tells whether the provider's  *)
(* effect has run since the page was loaded.                               *)
(***************************************************************************)
ClientOps == {"login", "register", "logout", "language"}

NoCall == [pc |-> "idle"]

\* a browser that has never signed in
EmptyStorage ==
    [authToken |-> Undefined, refreshToken |-> Undefined, userData |-> Undefined]

Dashboards == {"/vendor/dashboard", "/buyer/dashboard"}

\* the URLs a visitor opens: the four routes of AppContent, and /login
Paths == {"/", "/auth", "/login"} \cup Dashboards

\* an auth page that sends everybody to the buyer dashboard
DashboardOfBuyers(userType) == "/buyer/dashboard"

\* AuthPage: user.userType === 'VENDOR' ? '/vendor/dashboard' : '/buyer/dashboard'
DashboardOf(userType) ==
    IF userType = "VENDOR" THEN "/vendor/dashboard" ELSE "/buyer/dashboard"

\* a router whose dashboards are not wrapped in ProtectedRoute
RouteUnprotected(path, user, isLoading) ==
    IF path \in {"/", "/auth"}
    THEN IF user # Undefined THEN DashboardOf(user[1].userType) ELSE "/auth"
    ELSE path

\* the location the router settles on: <Navigate> of the route "/", of
\* AuthPage (a user is signed in) and of ProtectedRoute (nobody is signed in
\* and the provider is not loading).  No route matches /login.
Route(path, user, isLoading) ==
    IF path \in {"/", "/auth"}
    THEN IF user # Undefined THEN DashboardOf(user[1].userType) ELSE "/auth"
    ELSE IF path \in Dashboards
    THEN IF isLoading \/ user # Undefined THEN path ELSE "/auth"
    ELSE path

\* what the routes render at the client's location
Rendered(c) ==
    IF c.location = "/auth" THEN "AuthPage"
    ELSE IF c.location \in Dashboards
    THEN IF c.isLoading THEN "spinner"
         ELSE IF c.location = "/vendor/dashboard" THEN "VendorDashboard"
         ELSE "BuyerDashboard"
    ELSE "nothing"

\* JSON.stringify(user) and JSON.parse(userData): the text of a user object
Stringify(user) == [json |-> user]

ParseThrows(text) == "json" \notin DOMAIN text

Parse(text) == text.json

\* the page as the browser has loaded it at a URL: useState(null),
\* useState(true), the effect not yet run, no call made
PageLoad(storage, path) ==
    [user |-> Undefined, isLoading |-> TRUE, mounted |-> FALSE,
     localStorage |-> storage, location |-> Route(path, Undefined, TRUE),
     href |-> Undefined, calls |-> [k \in ClientOps |-> NoCall],
     settled |-> Undefined]

ClientStart == PageLoad(EmptyStorage, "/")

(***************************************************************************)
(* Responses. last is the response sent most recently.                     *)
(***************************************************************************)
NoResponse == [op |-> "none"]

Respond(r) == last' = r

Silent == UNCHANGED last

Idle == [pc |-> "idle"]

(***************************************************************************)
(* Startup of the server process (index.ts).  The routes module is imported *)
(* first and constructs its AuthService without a client, so the           *)
(* constructor starts import('../index.js') and leaves this.prisma          *)
(* unassigned until the promise's callback runs.  startServer awaits the    *)
(* Redis and the database connection and then listens.  startup.prisma      *)
(* tells whether this.prisma is assigned, startup.step what startServer has *)
(* reached.  No statement of the program orders the callback of the import  *)
(* and the steps of startServer.                                            *)
(***************************************************************************)
StartupSteps == {"redis", "database", "listening", "exited"}

\* the modules are evaluated and startServer() is called
Loaded == [prisma |-> FALSE, step |-> "redis"]

\* the server listens and the service has its handle
Serving == [prisma |-> TRUE, step |-> "listening"]

\* the process before its first request, the server up
Process ==
    /\ env \in Environments
    /\ users = <<>>
    /\ reg = [c \in Calls |-> Idle]
    /\ now = 0
    /\ ticks = 0
    /\ last = NoResponse
    /\ client = ClientStart

Init ==
    /\ Process
    /\ startup = Serving

(***************************************************************************)
(* POST /api/auth/register and AuthService.register.  The route parses the *)
(* body with the same schema and answers 400 with the same message the     *)
(* service returns, 201 with the result on success and 400 with it         *)
(* otherwise.                                                              *)
(***************************************************************************)
RegisterResponse(data, result) ==
    [op |-> "register", data |-> data, body |-> result,
     status |-> IF result.success THEN 201 ELSE 400]

\* register up to the await of findUnique's answer (lines 20-56)
RegisterCheck(c, data) ==
    /\ reg[c].pc = "idle"
    /\ IF Validated[data] # {}
       THEN /\ Respond(RegisterResponse(data, CHOOSE r \in Validated[data] : TRUE))
            /\ UNCHANGED reg
       ELSE IF FindByEmail(users, data.email) # {}
       THEN /\ Respond(RegisterResponse(data, Failure("User with this email already exists")))
            /\ UNCHANGED reg
       ELSE /\ reg' = [reg EXCEPT ![c] = [pc |-> "create", data |-> data]]
            /\ Silent
    /\ UNCHANGED <<startup, client, env, users, now, ticks>>

\* register from bcrypt.hash to the return (lines 58-122)
RegisterCreate(c) ==
    /\ reg[c].pc = "create"
    /\ LET data == reg[c].data
           salt == GenSalt(users)
       IN
         IF UniqueViolation(users, data.email)
         THEN \* create throws; the catch block answers
              /\ Respond(RegisterResponse(data,
                     Failure("Registration failed due to server error")))
              /\ UNCHANGED users
         ELSE LET user == NewUser(users, data, BcryptHash(data.password, salt))
              IN  /\ users' = Append(users, user)
                  /\ Respond(RegisterResponse(data, IssueTokens(user, env, now)))
    /\ reg' = [reg EXCEPT ![c] = Idle]
    /\ UNCHANGED <<startup, client, env, now, ticks>>

(***************************************************************************)
(* AuthService.login and POST /api/auth/login.  The only await that reads  *)
(* shared state is findUnique; the rest of the handler works on its        *)
(* answer.                                                                 *)
(***************************************************************************)
\* a login that tells a missing user from a wrong password
LoginResultTelling(us, e, t, email, password) ==
    IF FindByEmail(us, email) = {}
    THEN Failure("User not found")
    ELSE LET user == CHOOSE u \in FindByEmail(us, email) : TRUE IN
         IF ~BcryptCompare(password, user.passwordHash)
         THEN Failure("Invalid email or password")
         ELSE IssueTokens(user, e, t)

\* AuthService.login (lines 209-285)
LoginResult(us, e, t, email, password) ==
    IF FindByEmail(us, email) = {}
    THEN Failure("Invalid email or password")
    ELSE LET user == CHOOSE u \in FindByEmail(us, email) : TRUE IN
         IF ~BcryptCompare(password, user.passwordHash)
         THEN Failure("Invalid email or password")
         ELSE IssueTokens(user, e, t)

\* router.post('/login')
Login(email, password) ==
    /\ IF email = <<>> \/ password = <<>>
       THEN Respond([op |-> "login", email |-> email, password |-> password,
                     called |-> FALSE, status |-> 400,
                     body |-> Failure("Email and password are required")])
       ELSE LET result == LoginResult(users, env, now, email, password) IN
            Respond([op |-> "login", email |-> email, password |-> password,
                     called |-> TRUE,
                     status |-> IF result.success THEN 200 ELSE 401,
                     body |-> result])
    /\ UNCHANGED <<startup, client, env, users, reg, now, ticks>>

(***************************************************************************)
(* Tokens a caller can present: those carried by the last response (the    *)
(* tokens it returned and the token it was sent for), tokens signed by     *)
(* someone else with one of the two development defaults that the source   *)
(* publishes, and a string that is no token at all.                        *)
(***************************************************************************)
TokensOf(r) ==
    (IF "body" \in DOMAIN r /\ "token" \in DOMAIN r.body THEN {r.body.token} ELSE {})
    \cup (IF "body" \in DOMAIN r /\ "refreshToken" \in DOMAIN r.body
          THEN {r.body.refreshToken} ELSE {})
    \cup (IF "token" \in DOMAIN r /\ r.token # Undefined THEN {r.token[1]} ELSE {})

ForeignSecrets == {DefaultJwtSecret, DefaultRefreshSecret}

\* tokens made out for the first user id, signed now
ForgedTokens ==
    {JwtSign([userId |-> 1, email |-> EmailA], k, AccessTtl, now) : k \in ForeignSecrets}
    \cup {JwtSign([userId |-> 1, email |-> EmailA, type |-> "refresh"], k, RefreshTtl, now) :
              k \in ForeignSecrets}

\* a string that is no JWT: no signature any secret verifies
MalformedToken == [payload |-> [raw |-> "not-a-jwt"], sig |-> "<none>"]

PresentableTokens == TokensOf(last) \cup ForgedTokens \cup {MalformedToken}

(***************************************************************************)
(* AuthService.refreshToken and POST /api/auth/refresh.                    *)
(***************************************************************************)
\* AuthService.refreshToken with the type check left out
RefreshResultNoTypeCheck(us, e, t, token) ==
    IF ~JwtVerifies(token, RefreshSecret(e), t)
    THEN Failure("Invalid or expired refresh token")
    ELSE IF FindById(us, token.payload.userId) = {}
    THEN Failure("User not found")
    ELSE LET user == CHOOSE u \in FindById(us, token.payload.userId) : TRUE IN
         [success |-> TRUE, user |-> Sanitized(user), token |-> AccessToken(user, e, t)]

\* AuthService.refreshToken that also renews the refresh token
RefreshResultRotating(us, e, t, token) ==
    IF ~JwtVerifies(token, RefreshSecret(e), t)
    THEN Failure("Invalid or expired refresh token")
    ELSE IF NotRefreshType(token.payload)
    THEN Failure("Invalid refresh token")
    ELSE IF FindById(us, token.payload.userId) = {}
    THEN Failure("User not found")
    ELSE LET user == CHOOSE u \in FindById(us, token.payload.userId) : TRUE IN
         [success |-> TRUE, user |-> Sanitized(user), token |-> AccessToken(user, e, t),
          refreshToken |-> RefreshTokenFor(user, e, t)]

\* AuthService.refreshToken (lines 125-184)
RefreshResult(us, e, t, token) ==
    IF ~JwtVerifies(token, RefreshSecret(e), t)
    THEN Failure("Invalid or expired refresh token")
    ELSE IF NotRefreshType(token.payload)
    THEN Failure("Invalid refresh token")
    ELSE IF FindById(us, token.payload.userId) = {}
    THEN Failure("User not found")
    ELSE LET user == CHOOSE u \in FindById(us, token.payload.userId) : TRUE IN
         [success |-> TRUE, user |-> Sanitized(user), token |-> AccessToken(user, e, t)]

\* router.post('/refresh'); token is the optional refreshToken of the body
Refresh(token) ==
    /\ IF token = Undefined
       THEN Respond([op |-> "refresh", token |-> token, called |-> FALSE,
                     status |-> 400, body |-> Failure("Refresh token is required")])
       ELSE LET result == RefreshResult(users, env, now, token[1]) IN
            Respond([op |-> "refresh", token |-> token, called |-> TRUE,
                     status |-> IF result.success THEN 200 ELSE 401,
                     body |-> result])
    /\ UNCHANGED <<startup, client, env, users, reg, now, ticks>>

(***************************************************************************)
(* authenticateToken, and the two routes behind it.                        *)
(***************************************************************************)
\* authHeader && authHeader.split(' ')[1]: the optional token of the header
BearerToken(header) ==
    IF header = Undefined THEN Undefined
    ELSE IF Len(header) < 2 THEN Undefined
    ELSE Some(header[2])

\* the Authorization headers a caller can send
Headers ==
    {Undefined, <<"Bearer">>} \cup {<<"Bearer", tok>> : tok \in PresentableTokens}

\* a middleware that only looks for a token and does not verify it
AuthenticateFailureUnverified(header, e, t) ==
    IF BearerToken(header) = Undefined
    THEN {[status |-> 401, body |-> Failure("Access token required")]}
    ELSE {}

\* authenticateToken: the response it sends itself, or none when it calls next
AuthenticateFailure(header, e, t) ==
    IF BearerToken(header) = Undefined
    THEN {[status |-> 401, body |-> Failure("Access token required")]}
    ELSE IF ~JwtVerifies(BearerToken(header)[1], JwtSecret(e), t)
    THEN {[status |-> 403, body |-> Failure("Invalid or expired token")]}
    ELSE {}

\* req.user = decoded
RequestUser(header) == BearerToken(header)[1].payload

\* a logout that deletes the account it logs out
LogoutServiceDeleting(us, userId) == SelectSeq(us, LAMBDA u : u.id # userId)

\* AuthService.logout (lines 186-195): a log line, and nothing else
LogoutService(us, userId) == us

\* router.post('/logout', authenticateToken, ...) and AuthService.logout.
\* Every token of the model carries a userId, so the 400 for a missing one
\* is never sent.
Logout(header) ==
    /\ LET denied == AuthenticateFailure(header, env, now) IN
       IF denied # {}
       THEN LET d == CHOOSE x \in denied : TRUE IN
            /\ Respond([op |-> "logout", token |-> BearerToken(header), next |-> FALSE,
                        status |-> d.status, body |-> d.body])
            /\ UNCHANGED users
       ELSE /\ users' = LogoutService(users, RequestUser(header).userId)
            /\ Respond([op |-> "logout", token |-> BearerToken(header), next |-> TRUE,
                        user |-> RequestUser(header), status |-> 200,
                        body |-> [success |-> TRUE, message |-> "Logged out successfully"]])
    /\ UNCHANGED <<startup, client, env, reg, now, ticks>>

\* a route that takes anything with a length of at least 2
LanguageRejectedUntyped(language) == Len(language) < MinLanguage

\* !language || typeof language !== 'string' || language.length < 2
LanguageRejected(language) ==
    language = Undefined \/ ~IsString(language) \/ Len(language) < MinLanguage

\* an update without its where clause: every row gets the language
UpdateLanguageEveryRow(us, id, language) ==
    [i \in 1..Len(us) |-> [us[i] EXCEPT !.preferredLanguage = language]]

\* an update that writes the column default of userType back with it
UpdateLanguageResetType(us, id, language) ==
    [i \in 1..Len(us) |->
        IF us[i].id = id
        THEN [us[i] EXCEPT !.preferredLanguage = language, !.userType = "BUYER"]
        ELSE us[i]]

\* prisma.user.update({where: {id}, data: {preferredLanguage}})
UpdateLanguage(us, id, language) ==
    [i \in 1..Len(us) |->
        IF us[i].id = id THEN [us[i] EXCEPT !.preferredLanguage = language] ELSE us[i]]

\* router.put('/language', authenticateToken, ...) and
\* AuthService.setLanguagePreference
SetLanguage(header, language) ==
    /\ LET denied == AuthenticateFailure(header, env, now) IN
       IF denied # {}
       THEN LET d == CHOOSE x \in denied : TRUE IN
            \* the body is not read before next is called
            /\ Respond([op |-> "language", token |-> BearerToken(header),
                        next |-> FALSE, status |-> d.status, body |-> d.body])
            /\ UNCHANGED users
       ELSE LET user == RequestUser(header)
                base == [op |-> "language", token |-> BearerToken(header),
                         language |-> language, next |-> TRUE, user |-> user]
            IN
            IF LanguageRejected(language)
            THEN /\ Respond(base @@ [status |-> 400,
                                     body |-> Failure("Valid language code is required")])
                 /\ UNCHANGED users
            ELSE IF FindById(users, user.userId) = {}
            THEN \* update throws, the route's catch block answers
                 /\ Respond(base @@ [status |-> 500,
                                     body |-> Failure("Internal server error")])
                 /\ UNCHANGED users
            ELSE /\ users' = UpdateLanguage(users, user.userId, language)
                 /\ Respond(base @@ [status |-> 200,
                        body |-> [success |-> TRUE,
                                  message |-> "Language preference updated successfully"]])
    /\ UNCHANGED <<startup, client, env, reg, now, ticks>>

(***************************************************************************)
(* The clock, in seconds.                                                  *)
(***************************************************************************)
TickSteps == {AccessTtl, RefreshTtl}

Tick(d) ==
    /\ ticks < MaxTicks
    /\ now' = now + d
    /\ ticks' = ticks + 1
    /\ UNCHANGED <<startup, client, env, users, reg, last>>

\* the server with any number of register calls in flight
NextRegister ==
    \/ \E c \in Calls, data \in RegisterInputs : RegisterCheck(c, data)
    \/ \E c \in Calls : RegisterCreate(c)

SpecRegister == Init /\ [][NextRegister]_vars

\* the server with every route, one register call at a time
Next ==
    \/ \E data \in SessionInputs : RegisterCheck(1, data)
    \/ RegisterCreate(1)
    \/ \E email \in LoginEmails, password \in LoginPasswords : Login(email, password)
    \/ \E token \in {Undefined} \cup {Some(tok) : tok \in PresentableTokens} : Refresh(token)
    \/ \E header \in Headers : Logout(header)
    \/ \E header \in Headers, language \in Languages : SetLanguage(header, language)
    \/ \E d \in TickSteps : Tick(d)

Spec == Init /\ [][Next]_vars

(***************************************************************************)
(* The browser client: services/api.ts and the AuthProvider.  The context  *)
(* hands login, register, logout and updateLanguagePreference to any       *)
(* component; each is an async function that sends one request through     *)
(* the axios instance and goes on when the answer is there.  A call in     *)
(* flight keeps what the request was built from: the Authorization header  *)
(* the request interceptor read from local storage, the _retry flag of the *)
(* request config, and for a language update the user of the render that   *)
(* made the call.  The server answers one request at a time; last is the   *)
(* answer on its way to the browser.  settled is the operation that came   *)
(* back last and the success flag of its result, until a component makes   *)
(* the next call.  The forms switch their controls off while isLoading is  *)
(* set (RegisterForm, disabled={isLoading}), so that login, register and   *)
(* logout start only when it is not; LanguageSelector does not look at     *)
(* isLoading and offers the language update whenever a user is signed in.  *)
(***************************************************************************)
\* the sign-in form filled in for the first account, rightly and wrongly
ClientCredentials ==
    {[email |-> EmailA, password |-> Password1],
     [email |-> EmailA, password |-> Password2]}

\* a buyer and a vendor sign up
ClientRegistrations == {DataA, DataB}

ClientLanguages == {LangXx}

\* the server as the client meets it: in development with the default
\* secrets, in production with both secrets set, in production with none
ClientEnvironments ==
    {[NODE_ENV |-> "development", JWT_SECRET |-> Unset, JWT_REFRESH_SECRET |-> Unset],
     [NODE_ENV |-> "production", JWT_SECRET |-> "secret-1", JWT_REFRESH_SECRET |-> "secret-2"],
     [NODE_ENV |-> "production", JWT_SECRET |-> Unset, JWT_REFRESH_SECRET |-> Unset]}

\* the routes behind authenticateToken; the other routes do not read the
\* Authorization header, and a call to them keeps none
ProtectedOps == {"logout", "language"}

\* api.interceptors.request (lines 14-20)
RequestHeader(storage) ==
    IF storage.authToken = Undefined THEN Undefined
    ELSE <<"Bearer", storage.authToken[1]>>

\* the synchronous part of a context operation, up to its await
Started(c, k, args, isLoading) ==
    [c EXCEPT !.isLoading = isLoading,
              !.settled = Undefined,
              !.location = Route(c.location, c.user, isLoading),
              !.calls[k] = [pc |-> "sent", retry |-> FALSE, sends |-> 1, refreshes |-> 0,
                            header |-> IF k \in ProtectedOps
                                       THEN RequestHeader(c.localStorage)
                                       ELSE Undefined,
                            refreshToken |-> Undefined, error |-> ""] @@ args]

\* the page takes input: the provider's effect has run, and the browser is
\* not leaving for another URL
Interactive == client.mounted /\ client.href = Undefined

\* nothing is under way between the client and the server
Quiet ==
    /\ last = NoResponse
    /\ reg[1] = Idle
    /\ \A k \in ClientOps : client.calls[k] = NoCall

\* useEffect(() => {...}, []) of the AuthProvider (lines 33-51)
InitialLoad ==
    /\ ~client.mounted
    /\ LET storage == client.localStorage
           stored == storage.authToken # Undefined /\ storage.userData # Undefined
           broken == stored /\ ParseThrows(storage.userData[1])
           user == IF stored /\ ~broken THEN Some(Parse(storage.userData[1]))
                   ELSE client.user
       IN  client' = [client EXCEPT
                         !.mounted = TRUE,
                         !.user = user,
                         !.localStorage = IF broken THEN EmptyStorage ELSE storage,
                         !.isLoading = FALSE,
                         !.location = Route(client.location, user, FALSE)]
    /\ UNCHANGED <<startup, env, users, reg, now, ticks, last>>

\* login, lines 53-56: setIsLoading(true) and the request
LoginStart(credentials) ==
    /\ Interactive
    /\ ~client.isLoading
    /\ client.calls["login"] = NoCall
    /\ client' = Started(client, "login", [credentials |-> credentials], TRUE)
    /\ UNCHANGED <<startup, env, users, reg, now, ticks, last>>

\* register, lines 74-77
RegisterStart(data) ==
    /\ Interactive
    /\ ~client.isLoading
    /\ client.calls["register"] = NoCall
    /\ client' = Started(client, "register", [data |-> data], TRUE)
    /\ UNCHANGED <<startup, env, users, reg, now, ticks, last>>

\* logout, lines 95-98
LogoutStart ==
    /\ Interactive
    /\ ~client.isLoading
    /\ client.calls["logout"] = NoCall
    /\ client' = Started(client, "logout", <<>>, TRUE)
    /\ UNCHANGED <<startup, env, users, reg, now, ticks, last>>

\* updateLanguagePreference, lines 110-111: isLoading is left alone, and
\* the function closes over the user of the render it was created in.
\* LanguageSelector calls it when a user is signed in.
LanguageStart(language) ==
    /\ Interactive
    /\ client.user # Undefined
    /\ client.calls["language"] = NoCall
    /\ client' = Started(client, "language",
                         [language |-> language, user |-> client.user], client.isLoading)
    /\ UNCHANGED <<startup, env, users, reg, now, ticks, last>>

\* the server takes the request of a call and answers it
ServeLogin ==
    /\ last = NoResponse
    /\ client.calls["login"].pc = "sent"
    /\ Login(client.calls["login"].credentials.email,
             client.calls["login"].credentials.password)

ServeRegister ==
    /\ last = NoResponse
    /\ client.calls["register"].pc = "sent"
    /\ RegisterCheck(1, client.calls["register"].data)

ServeRegisterCreate ==
    /\ last = NoResponse
    /\ RegisterCreate(1)

ServeLogout ==
    /\ last = NoResponse
    /\ client.calls["logout"].pc = "sent"
    /\ Logout(client.calls["logout"].header)

ServeLanguage ==
    /\ last = NoResponse
    /\ client.calls["language"].pc = "sent"
    /\ SetLanguage(client.calls["language"].header, client.calls["language"].language)

\* axios.post(`${API_BASE_URL}/api/auth/refresh`, {refreshToken})
ServeRefresh(k) ==
    /\ last = NoResponse
    /\ client.calls[k].pc = "refreshing"
    /\ Refresh(client.calls[k].refreshToken)

\* a response interceptor that does not look at _retry
UnauthorizedEveryTime(response, call) == response.status = 401

\* error.response?.status === 401 && !originalRequest._retry
Unauthorized(response, call) == response.status = 401 /\ ~call.retry

\* the response interceptor at a 401 with a refresh token in storage (lines
\* 28-35): _retry is set and the refresh request goes out
InterceptorRefresh(k) ==
    /\ client.calls[k].pc = "sent"
    /\ last.op = k
    /\ Unauthorized(last, client.calls[k])
    /\ client.localStorage.refreshToken # Undefined
    /\ client' = [client EXCEPT !.calls[k] =
                     [@ EXCEPT !.pc = "refreshing", !.retry = TRUE,
                               !.refreshes = @ + 1,
                               !.refreshToken = client.localStorage.refreshToken,
                               !.error = last.body.error]]
    /\ last' = NoResponse
    /\ UNCHANGED <<startup, env, users, reg, now, ticks>>

\* lines 37-41: the new token is stored and the original request sent again
RefreshSucceeds(k) ==
    /\ client.calls[k].pc = "refreshing"
    /\ last.op = "refresh" /\ last.token = client.calls[k].refreshToken
    /\ last.status = 200 /\ last.body.success
    /\ client' = [client EXCEPT
                     !.localStorage.authToken = Some(last.body.token),
                     !.calls[k] = [@ EXCEPT !.pc = "sent", !.sends = @ + 1,
                                            !.header = IF k \in ProtectedOps
                                                       THEN <<"Bearer", last.body.token>>
                                                       ELSE Undefined]]
    /\ last' = NoResponse
    /\ UNCHANGED <<startup, env, users, reg, now, ticks>>

\* what the authAPI method returns: response.data of an answer with a 2xx
\* status, and {success: false, error} for a rejected request
ApiResult(response, fallback) ==
    IF response.status \in 200..299 THEN response.body
    ELSE Failure(IF "body" \in DOMAIN response THEN response.body.error ELSE fallback)

\* login and register after the await (lines 57-71 and 78-92)
SignedIn(c, result) ==
    LET ok == result.success /\ "user" \in DOMAIN result /\ "token" \in DOMAIN result
        user == IF ok THEN Some(result.user) ELSE c.user
        storage ==
            IF ok
            THEN [authToken |-> Some(result.token),
                  userData |-> Some(Stringify(result.user)),
                  refreshToken |-> IF "refreshToken" \in DOMAIN result
                                   THEN Some(result.refreshToken)
                                   ELSE c.localStorage.refreshToken]
            ELSE c.localStorage
    IN  [c EXCEPT !.user = user, !.localStorage = storage, !.isLoading = FALSE,
                  !.location = Route(c.location, user, FALSE)]

\* a logout that cleans up only when the server said yes
SignedOutOnSuccess(c, result) ==
    IF result.success
    THEN [c EXCEPT !.user = Undefined, !.localStorage = EmptyStorage,
                   !.isLoading = FALSE,
                   !.location = Route(c.location, Undefined, FALSE)]
    ELSE [c EXCEPT !.isLoading = FALSE,
                   !.location = Route(c.location, c.user, FALSE)]

\* logout after the await: the finally block (lines 101-107)
SignedOut(c, result) ==
    [c EXCEPT !.user = Undefined, !.localStorage = EmptyStorage, !.isLoading = FALSE,
              !.location = Route(c.location, Undefined, FALSE)]

\* updateLanguagePreference after the await (lines 113-119); user is the
\* one the function closed over
LanguageUpdated(c, call, result) ==
    IF result.success /\ call.user # Undefined
    THEN LET updatedUser == [call.user[1] EXCEPT !.preferredLanguage = call.language]
         IN  [c EXCEPT !.user = Some(updatedUser),
                       !.localStorage.userData = Some(Stringify(updatedUser)),
                       !.location = Route(c.location, Some(updatedUser), c.isLoading)]
    ELSE c

\* the context operation k goes on with the result of its authAPI method
Continued(c, k, result) ==
    LET after == CASE k = "login" -> SignedIn(c, result)
                   [] k = "register" -> SignedIn(c, result)
                   [] k = "logout" -> SignedOut(c, result)
                   [] k = "language" -> LanguageUpdated(c, c.calls[k], result)
    IN  [after EXCEPT !.calls[k] = NoCall,
                      !.settled = Some([op |-> k, success |-> result.success])]

\* lines 42-47: the refresh request is rejected; both tokens are removed, the
\* browser is sent to /login, and the original error is handed on
RefreshFails(k) ==
    /\ client.calls[k].pc = "refreshing"
    /\ last.op = "refresh" /\ last.token = client.calls[k].refreshToken
    /\ last.status # 200
    /\ client' = Continued([client EXCEPT !.localStorage.authToken = Undefined,
                                          !.localStorage.refreshToken = Undefined,
                                          !.href = Some("/login")],
                           k, Failure(client.calls[k].error))
    /\ last' = NoResponse
    /\ UNCHANGED <<startup, env, users, reg, now, ticks>>

\* the fallback message of each authAPI method
Fallback ==
    [login |-> "Login failed", register |-> "Registration failed",
     logout |-> "Logout failed", language |-> "Language update failed"]

\* a request that gets no answer: axios rejects with an error that has no
\* response, and the authAPI method returns its fallback
NetworkError(k) ==
    /\ last = NoResponse
    /\ client.calls[k].pc = "sent"
    /\ client' = Continued(client, k, ApiResult([op |-> k, status |-> 0], Fallback[k]))
    /\ UNCHANGED <<startup, env, users, reg, now, ticks, last>>

\* the answer to the request of call k reaches the caller: every answer
\* but a 401 that starts a refresh
Answered(k) ==
    /\ client.calls[k].pc = "sent"
    /\ last.op = k
    /\ ~(Unauthorized(last, client.calls[k]) /\ client.localStorage.refreshToken # Undefined)

LoginFinish ==
    /\ Answered("login")
    /\ client' = Continued(client, "login", ApiResult(last, Fallback["login"]))
    /\ last' = NoResponse
    /\ UNCHANGED <<startup, env, users, reg, now, ticks>>

RegisterFinish ==
    /\ Answered("register")
    /\ client' = Continued(client, "register", ApiResult(last, Fallback["register"]))
    /\ last' = NoResponse
    /\ UNCHANGED <<startup, env, users, reg, now, ticks>>

LogoutFinish ==
    /\ Answered("logout")
    /\ client' = Continued(client, "logout", ApiResult(last, Fallback["logout"]))
    /\ last' = NoResponse
    /\ UNCHANGED <<startup, env, users, reg, now, ticks>>

LanguageFinish ==
    /\ Answered("language")
    /\ client' = Continued(client, "language", ApiResult(last, Fallback["language"]))
    /\ last' = NoResponse
    /\ UNCHANGED <<startup, env, users, reg, now, ticks>>

\* the visitor opens a URL or reloads the page between two uses: the
\* application starts again with what local storage holds
Visit(path) ==
    /\ Interactive
    /\ Quiet
    /\ client' = PageLoad(client.localStorage, path)
    /\ UNCHANGED <<startup, env, users, reg, now, ticks, last>>

\* the browser follows window.location.href = '/login'; answers on their
\* way to the page it leaves are lost
Navigate ==
    /\ client.href # Undefined
    /\ client' = PageLoad(client.localStorage, client.href[1])
    /\ last' = NoResponse
    /\ UNCHANGED <<startup, env, users, reg, now, ticks>>

\* an answer to a request of a page that is gone
Discard ==
    /\ last # NoResponse
    /\ \A k \in ClientOps : client.calls[k] = NoCall
    /\ last' = NoResponse
    /\ UNCHANGED <<startup, client, env, users, reg, now, ticks>>

\* time passes between two uses of the application
Later(d) ==
    /\ Quiet
    /\ Tick(d)

NextClient ==
    \/ InitialLoad
    \/ \E credentials \in ClientCredentials : LoginStart(credentials)
    \/ \E data \in ClientRegistrations : RegisterStart(data)
    \/ LogoutStart
    \/ \E language \in ClientLanguages : LanguageStart(language)
    \/ ServeLogin
    \/ ServeRegister
    \/ ServeRegisterCreate
    \/ ServeLogout
    \/ ServeLanguage
    \/ \E k \in ClientOps : ServeRefresh(k)
    \/ \E k \in ClientOps : NetworkError(k)
    \/ \E k \in ClientOps : InterceptorRefresh(k)
    \/ \E k \in ClientOps : RefreshSucceeds(k)
    \/ \E k \in ClientOps : RefreshFails(k)
    \/ LoginFinish
    \/ RegisterFinish
    \/ LogoutFinish
    \/ LanguageFinish
    \/ \E path \in Paths : Visit(path)
    \/ Navigate
    \/ Discard
    \/ \E d \in TickSteps : Later(d)

InitClient == Init /\ env \in ClientEnvironments

SpecClient == InitClient /\ [][NextClient]_vars

(***************************************************************************)
(* Persistence faults: a prisma call rejects (connection lost, timeout).   *)
(* Both service methods run inside one try block whose catch returns a     *)
(* failed AuthResult, which the route answers like any other failure.      *)
(* threw names the call that rejected.                                     *)
(***************************************************************************)
\* register: findUnique throws (lines 47-49, catch at 116-122)
RegisterFindThrows(c, data) ==
    /\ reg[c].pc = "idle"
    /\ Validated[data] = {}
    /\ Respond(RegisterResponse(data, Failure("Registration failed due to server error"))
                @@ [threw |-> "findUnique"])
    /\ UNCHANGED <<startup, client, env, users, reg, now, ticks>>

\* register: create throws for a reason other than the unique index
\* (lines 62-79, catch at 116-122)
RegisterCreateThrows(c) ==
    /\ reg[c].pc = "create"
    /\ Respond(RegisterResponse(reg[c].data,
                    Failure("Registration failed due to server error"))
                @@ [threw |-> "create"])
    /\ reg' = [reg EXCEPT ![c] = Idle]
    /\ UNCHANGED <<startup, client, env, users, now, ticks>>

\* login: findUnique throws (lines 214-224, catch at 278-284)
LoginFindThrows(email, password) ==
    /\ email # <<>>
    /\ password # <<>>
    /\ LET result == Failure("Login failed due to server error") IN
       Respond([op |-> "login", email |-> email, password |-> password,
                called |-> TRUE,
                status |-> IF result.success THEN 200 ELSE 401,
                body |-> result, threw |-> "findUnique"])
    /\ UNCHANGED <<startup, client, env, users, reg, now, ticks>>

\* register and login over a database that can fail
NextFaults ==
    \/ \E data \in RegisterInputs : RegisterCheck(1, data)
    \/ RegisterCreate(1)
    \/ \E email \in LoginEmails, password \in LoginPasswords : Login(email, password)
    \/ \E data \in RegisterInputs : RegisterFindThrows(1, data)
    \/ RegisterCreateThrows(1)
    \/ \E email \in LoginEmails, password \in LoginPasswords :
          LoginFindThrows(email, password)

SpecFaults == Init /\ [][NextFaults]_vars

\* registration requests with and without a phoneNumber
NextPhone ==
    \/ \E data \in PhoneInputs : RegisterCheck(1, data)
    \/ RegisterCreate(1)

SpecPhone == Init /\ [][NextPhone]_vars

\* registration, login and the language route with every kind of body
NextLanguage ==
    \/ \E data \in RegisterInputs : RegisterCheck(1, data)
    \/ RegisterCreate(1)
    \/ \E email \in LoginEmails, password \in LoginPasswords : Login(email, password)
    \/ \E header \in Headers, language \in BodyLanguages : SetLanguage(header, language)

SpecLanguage == Init /\ [][NextLanguage]_vars

(***************************************************************************)
(* Vocabulary of the properties.                                           *)
(***************************************************************************)
\* some stored user has this email
Persisted(email) == \E i \in 1..Len(users) : users[i].email = email

\* the input breaks one of the rules of the registration schema
ViolatesRule(data) ==
    \/ ~IsEmail(data.email)
    \/ Len(data.password) < 8
    \/ Len(data.name) < 2
    \/ Len(data.preferredLanguage) < 2
    \/ data.userType \notin {"VENDOR", "BUYER"}

\* the input passes the schema and the two checks on trimmed lengths
PassesValidation(data) ==
    /\ ~ViolatesRule(data)
    /\ Len(Trim(data.password)) >= 8
    /\ Len(Trim(data.name)) >= 2

\* the inputs of the model that pass validation
ValidInputs == {data \in RegisterInputs : PassesValidation(data)}

\* a failed AuthResult: an error, and neither user nor tokens
IsFailure(body) ==
    /\ body.success = FALSE
    /\ "error" \in DOMAIN body
    /\ DOMAIN body \cap {"user", "token", "refreshToken"} = {}

DuplicateEmail == Failure("User with this email already exists")

ProductionWithoutSecret ==
    /\ env.NODE_ENV = "production"
    /\ env.JWT_SECRET = Unset \/ env.JWT_REFRESH_SECRET = Unset

(***************************************************************************)
(* C1. No two user records share an email, however the register calls      *)
(* interleave: at most one record exists per email, and a registration     *)
(* that succeeded is the one that wrote the single record of its email.    *)
(***************************************************************************)
C1_UniqueEmail ==
    /\ \A i, j \in 1..Len(users) : users[i].email = users[j].email => i = j
    /\ (last.op = "register" /\ last.body.success) =>
          /\ Cardinality({i \in 1..Len(users) : users[i].email = last.data.email}) = 1
          /\ users[last.body.user.id].email = last.data.email

\* a register call lost the race for its email: its create was refused
C1_Witness ==
    /\ last.op = "register"
    /\ last.body = Failure("Registration failed due to server error")
    /\ Persisted(last.data.email)

(***************************************************************************)
(* C2. As claimed: whenever register is called with an email that already  *)
(* belongs to a persisted user, the call fails with the duplicate-email    *)
(* error, returns no user and no tokens, and creates no second record.     *)
(***************************************************************************)
C2_AnyInputDuplicate ==
    [][\A c \in Calls, data \in RegisterInputs :
         (Persisted(data.email) /\ RegisterCheck(c, data)) =>
             /\ last' = RegisterResponse(data, DuplicateEmail)
             /\ users' = users
             /\ reg'[c].pc = "idle"]_vars

(***************************************************************************)
(* C2, amended. Whenever register is called with an input that passes      *)
(* validation and an email that already belongs to a persisted user, the   *)
(* call fails with the duplicate-email error, returns no user and no       *)
(* tokens, and never reaches prisma.user.create.                           *)
(***************************************************************************)
C2_ValidInputDuplicate ==
    [][\A c \in Calls, data \in ValidInputs :
         (Persisted(data.email) /\ RegisterCheck(c, data)) =>
             /\ last' = RegisterResponse(data, DuplicateEmail)
             /\ IsFailure(last'.body)
             /\ users' = users
             /\ reg'[c].pc = "idle"]_vars

\* a registration was refused as a duplicate
C2_Witness ==
    /\ last.op = "register"
    /\ last.body = DuplicateEmail
    /\ PassesValidation(last.data)
    /\ Persisted(last.data.email)

(***************************************************************************)
(* C3. What a successful registration does: one new record with the        *)
(* submitted email, name, userType, preferredLanguage and phoneNumber, and *)
(* a result without error that carries the same four profile fields, an    *)
(* access token and a refresh token.                                       *)
(***************************************************************************)
RegisteredAsSubmitted(data) ==
    /\ last'.op = "register"
    /\ last'.data = data
    /\ last'.body.success
    /\ "error" \notin DOMAIN last'.body
    /\ Len(users') = Len(users) + 1
    /\ SubSeq(users', 1, Len(users)) = users
    /\ LET row == users'[Len(users')] IN
         /\ row.email = data.email
         /\ row.name = data.name
         /\ row.userType = data.userType
         /\ row.preferredLanguage = data.preferredLanguage
         /\ row.phoneNumber = data.phoneNumber
    /\ last'.body.user.email = data.email
    /\ last'.body.user.name = data.name
    /\ last'.body.user.userType = data.userType
    /\ last'.body.user.preferredLanguage = data.preferredLanguage
    /\ {"token", "refreshToken"} \subseteq DOMAIN last'.body

(***************************************************************************)
(* C3. As claimed: for every valid registration input whose email          *)
(* findUnique found free, register succeeds as described above.            *)
(***************************************************************************)
C3_AlwaysSucceeds ==
    [][\A c \in Calls :
         RegisterCreate(c) => RegisteredAsSubmitted(reg[c].data)]_vars

(***************************************************************************)
(* C3, amended. For every valid registration input whose email is still    *)
(* free when the record is written, and unless the deployment is a         *)
(* production one with a signing secret unset, register succeeds as        *)
(* described above.                                                        *)
(***************************************************************************)
C3_SucceedsWhenFreeAndConfigured ==
    [][\A c \in Calls :
         (RegisterCreate(c) /\ ~Persisted(reg[c].data.email) /\ ~ProductionWithoutSecret)
             => RegisteredAsSubmitted(reg[c].data)]_vars

\* a registration succeeded and its record is stored as submitted
C3_Witness ==
    /\ last.op = "register"
    /\ last.body.success
    /\ users[last.body.user.id].name = last.data.name
    /\ users[last.body.user.id].preferredLanguage = last.data.preferredLanguage
    /\ users[last.body.user.id].phoneNumber = last.data.phoneNumber

(***************************************************************************)
(* C4. Every registration input that violates a rule of the schema is      *)
(* answered with success=false and an error, without user or token, and    *)
(* causes no write: the call never reaches prisma.user.create, and no      *)
(* stored record breaks a rule.                                            *)
(***************************************************************************)
C4_InvalidRejected ==
    /\ (last.op = "register" /\ ViolatesRule(last.data)) =>
          IsFailure(last.body) /\ last.status = 400
    /\ \A c \in Calls : reg[c].pc = "create" => ~ViolatesRule(reg[c].data)
    /\ \A i \in 1..Len(users) :
          /\ IsEmail(users[i].email)
          /\ Len(users[i].name) >= 2
          /\ Len(users[i].preferredLanguage) >= 2
          /\ users[i].userType \in {"VENDOR", "BUYER"}

\* an invalid input was answered while a user was stored and a valid call
\* was in flight
C4_Witness ==
    /\ last.op = "register"
    /\ ViolatesRule(last.data)
    /\ users # <<>>
    /\ \E c \in Calls : reg[c].pc = "create"

(***************************************************************************)
(* C5. Round trip: when a registration has just succeeded, a login with    *)
(* the same email and password succeeds, returns an access token and a     *)
(* refresh token, and returns the email, name, userType and                *)
(* preferredLanguage that the registration returned.                       *)
(***************************************************************************)
C5_RoundTrip ==
    [][(/\ last.op = "register"
        /\ last.body.success
        /\ Login(last.data.email, last.data.password))
       => /\ last'.op = "login"
          /\ last'.body.success
          /\ last'.status = 200
          /\ {"token", "refreshToken"} \subseteq DOMAIN last'.body
          /\ last'.body.user.email = last.body.user.email
          /\ last'.body.user.name = last.body.user.name
          /\ last'.body.user.userType = last.body.user.userType
          /\ last'.body.user.preferredLanguage = last.body.user.preferredLanguage]_vars

\* a registration has just succeeded, and the login the service computes
\* for its credentials succeeds
C5_Witness ==
    /\ last.op = "register"
    /\ last.body.success
    /\ LoginResult(users, env, now, last.data.email, last.data.password).success

(***************************************************************************)
(* C6. Enumeration resistance: a login for an email without a user record  *)
(* and a login for an existing email with a wrong password get the same    *)
(* answer: success=false, the error 'Invalid email or password', no user   *)
(* and no token, with status 401 and that result as the body.              *)
(***************************************************************************)
\* the password a stored user registered with
RegisteredPassword(user) == user.passwordHash.digest[2]

WrongPassword(email, password) ==
    \E i \in 1..Len(users) :
        users[i].email = email /\ RegisteredPassword(users[i]) # password

C6_EnumerationResistance ==
    (/\ last.op = "login"
     /\ last.called
     /\ ~Persisted(last.email) \/ WrongPassword(last.email, last.password))
    => /\ last.body = [success |-> FALSE, error |-> "Invalid email or password"]
       /\ last.status = 401

\* a wrong password for a stored user was answered, and the login of an
\* email without a record would get the same result
C6_Witness ==
    /\ last.op = "login"
    /\ last.called
    /\ WrongPassword(last.email, last.password)
    /\ \E email \in LoginEmails :
          /\ ~Persisted(email)
          /\ LoginResult(users, env, now, email, last.password) = last.body

(***************************************************************************)
(* C7. refreshToken never succeeds for a token whose payload has no        *)
(* type='refresh': it returns success=false and no new access token, also  *)
(* when both signing secrets have the same value.                          *)
(***************************************************************************)
C7_AccessTokenNeverRefreshes ==
    (/\ last.op = "refresh"
     /\ last.called
     /\ "type" \notin DOMAIN last.token[1].payload)
    => IsFailure(last.body) /\ last.status = 401

\* an access token the server issued, unexpired and signed with the secret
\* that refreshToken verifies with, was refused for its type
C7_Witness ==
    /\ last.op = "refresh"
    /\ last.called
    /\ "type" \notin DOMAIN last.token[1].payload
    /\ last.token[1].sig = RefreshSecret(env)
    /\ last.token[1].sig \notin ForeignSecrets
    /\ now < last.token[1].payload.exp
    /\ last.body = Failure("Invalid refresh token")

(***************************************************************************)
(* C8. A successful refresh returns a new access token and no refreshToken *)
(* field, and leaves the presented refresh token usable: until it expires, *)
(* presenting it again succeeds in the same way.                           *)
(***************************************************************************)
C8_NoRotation ==
    (last.op = "refresh" /\ last.body.success)
    => /\ "token" \in DOMAIN last.body
       /\ "refreshToken" \notin DOMAIN last.body
       /\ last.status = 200
       /\ now < last.token[1].payload.exp =>
            LET again == RefreshResult(users, env, now, last.token[1]) IN
            /\ again.success
            /\ "token" \in DOMAIN again
            /\ "refreshToken" \notin DOMAIN again

\* a refresh token the server issued earlier was exchanged after time passed
C8_Witness ==
    /\ last.op = "refresh"
    /\ last.body.success
    /\ last.token[1].sig \notin ForeignSecrets
    /\ last.token[1].payload.iat < last.body.token.payload.iat
    /\ now < last.token[1].payload.exp

(***************************************************************************)
(* C9. As claimed: in production with JWT_SECRET or JWT_REFRESH_SECRET     *)
(* unset, register and login return success=false with the error 'Server   *)
(* configuration error'.                                                   *)
(***************************************************************************)
ConfigurationError == Failure("Server configuration error")

C9_AlwaysConfigurationError ==
    (/\ ProductionWithoutSecret
     /\ last.op = "register" \/ (last.op = "login" /\ last.called))
    => last.body = ConfigurationError

(***************************************************************************)
(* C9, amended. In production with JWT_SECRET or JWT_REFRESH_SECRET unset, *)
(* register and login fail closed: every call returns success=false and no *)
(* token, and the calls that are not rejected earlier (for invalid input,  *)
(* a taken email or wrong credentials) return 'Server configuration        *)
(* error'.                                                                 *)
(***************************************************************************)
RightCredentials(email, password) ==
    \E i \in 1..Len(users) :
        users[i].email = email /\ RegisteredPassword(users[i]) = password

C9_FailClosed ==
    [][ProductionWithoutSecret =>
        /\ last'.op \in {"register", "login"} => IsFailure(last'.body)
        /\ \A c \in Calls :
              (RegisterCreate(c) /\ ~Persisted(reg[c].data.email))
                  => last'.body = ConfigurationError
        /\ (/\ last'.op = "login"
            /\ RightCredentials(last'.email, last'.password)
            /\ Login(last'.email, last'.password))
           => last'.body = ConfigurationError]_vars

\* a login with the right password was refused for the configuration
C9_Witness ==
    /\ ProductionWithoutSecret
    /\ last.op = "login"
    /\ RightCredentials(last.email, last.password)
    /\ last.body = ConfigurationError
    /\ last.status = 401

(***************************************************************************)
(* C10. In production with a signing secret unset, no operation signs or   *)
(* verifies a token with a development default secret: no response         *)
(* returns a token signed with one, and no token signed with one is        *)
(* accepted by refreshToken or by authenticateToken.                       *)
(***************************************************************************)
SignedWithDefault(token) == token.sig \in {DefaultJwtSecret, DefaultRefreshSecret}

\* the tokens the last response returned
Returned(r) ==
    (IF "body" \in DOMAIN r /\ "token" \in DOMAIN r.body THEN {r.body.token} ELSE {})
    \cup (IF "body" \in DOMAIN r /\ "refreshToken" \in DOMAIN r.body
          THEN {r.body.refreshToken} ELSE {})

\* the token the last response accepted
Accepted(r) ==
    IF r.op = "refresh" /\ r.body.success THEN {r.token[1]}
    ELSE IF r.op \in {"logout", "language"} /\ r.next THEN {r.token[1]}
    ELSE {}

C10_NoDefaultSecretInProduction ==
    ProductionWithoutSecret =>
        \A token \in Returned(last) \cup Accepted(last) : ~SignedWithDefault(token)

(***************************************************************************)
(* C11. Logout invalidates nothing on the server: the logout handler       *)
(* leaves the user store as it was, and after a successful logout the      *)
(* access token it was called with is still accepted by authenticateToken, *)
(* and the refresh tokens issued to that user are still accepted by        *)
(* refreshToken, each until its own expiry.                                *)
(***************************************************************************)
\* the times, up to now, at which the server can have issued a token
IssueTimes == {t \in {0} \cup TickSteps : t <= now}

\* the refresh tokens the server has issued to the stored user of this id
RefreshTokensOf(userId) ==
    {RefreshTokenFor(u, env, t) : u \in FindById(users, userId), t \in IssueTimes}

LoggedOut == last.op = "logout" /\ last.status = 200

StillAccepted ==
    LoggedOut =>
        /\ now < last.token[1].payload.exp =>
              AuthenticateFailure(<<"Bearer", last.token[1]>>, env, now) = {}
        /\ \A rt \in RefreshTokensOf(last.user.userId) :
              now < rt.payload.exp =>
                  /\ RefreshResult(users, env, now, rt).success
                  /\ RefreshResult(users, env, now, rt).user.id = last.user.userId

C11_LogoutInvalidatesNothing ==
    [][/\ users' # users => \A header \in Headers : ~Logout(header)
       /\ StillAccepted']_vars

\* a user logged out with an access token the server issued, while a
\* refresh token issued to the same user earlier has not expired
C11_Witness ==
    /\ LoggedOut
    /\ last.token[1].sig \notin ForeignSecrets
    /\ now < last.token[1].payload.exp
    /\ \E rt \in RefreshTokensOf(last.user.userId) :
          rt.payload.iat < now /\ now < rt.payload.exp

(***************************************************************************)
(* C12. Token lifetimes: an access token issued to a stored user at time t *)
(* passes authenticateToken exactly at the times before t + 15 minutes,    *)
(* and a refresh token issued at time t passes refreshToken exactly at the *)
(* times before t + 7 days; the clock never goes back, so a token that has *)
(* expired is refused from then on.  Every token a response returns        *)
(* expires 15 minutes, or 7 days for a refresh token, after its iat.       *)
(***************************************************************************)
FifteenMinutes == 15 * 60
SevenDays == 7 * 24 * 60 * 60

PassesAuthenticateToken(token) ==
    AuthenticateFailure(<<"Bearer", token>>, env, now) = {}

PassesRefreshToken(token) == RefreshResult(users, env, now, token).success

C12_TokenLifetimes ==
    /\ \A i \in 1..Len(users), t \in IssueTimes :
          /\ PassesAuthenticateToken(AccessToken(users[i], env, t))
                <=> now < t + FifteenMinutes
          /\ PassesRefreshToken(RefreshTokenFor(users[i], env, t))
                <=> now < t + SevenDays
    /\ \A token \in Returned(last) :
          /\ token.payload.iat <= now
          /\ token.payload.exp - token.payload.iat =
                IF "type" \in DOMAIN token.payload THEN SevenDays ELSE FifteenMinutes

\* an access token the server issued was presented at its expiry time and
\* refused, while the refresh token issued with it is still good
C12_Witness ==
    /\ last.op = "logout"
    /\ last.status = 403
    /\ last.token[1].sig = JwtSecret(env)
    /\ last.token[1].sig \notin ForeignSecrets
    /\ "type" \notin DOMAIN last.token[1].payload
    /\ now = last.token[1].payload.iat + FifteenMinutes
    /\ \E i \in 1..Len(users) :
          /\ users[i].id = last.token[1].payload.userId
          /\ PassesRefreshToken(RefreshTokenFor(users[i], env, last.token[1].payload.iat))

(***************************************************************************)
(* C13. The logout and language handlers run only behind authenticateToken:*)
(* a request whose Authorization header carries no token, a string that is *)
(* no token, a token signed with another secret or an expired token is     *)
(* answered with a failure, next is not called, no user is attached and    *)
(* nothing is written; a request with a valid token reaches the handler    *)
(* with the token's userId and email attached.                             *)
(***************************************************************************)
\* the secret that access tokens are verified with
AccessSecret ==
    IF env.JWT_SECRET = Unset THEN "test-secret-key-for-development" ELSE env.JWT_SECRET

\* the header carries a token signed with the access secret and not expired
ValidBearer(header) ==
    /\ Len(header) >= 2
    /\ header[2].sig = AccessSecret
    /\ now < header[2].payload.exp

\* a request to one of the two protected routes
Protected(header) ==
    \/ last'.op = "logout" /\ Logout(header)
    \/ last'.op = "language" /\ \E language \in Languages :
                                    /\ last'.next => language = last'.language
                                    /\ SetLanguage(header, language)

\* the Authorization headers that carry this optional token
HeadersWith(token) ==
    IF token = Undefined THEN {Undefined, <<"Bearer">>} ELSE {<<"Bearer", token[1]>>}

C13_HandlersBehindAuthentication ==
    [][(last'.op \in {"logout", "language"} /\ now' = now /\ reg' = reg) =>
          \A header \in HeadersWith(last'.token) : Protected(header) =>
              IF ValidBearer(header)
              THEN /\ last'.next
                   /\ last'.user.userId = header[2].payload.userId
                   /\ last'.user.email = header[2].payload.email
              ELSE /\ ~last'.next
                   /\ "user" \notin DOMAIN last'
                   /\ IsFailure(last'.body)
                   /\ last'.status \in {401, 403}
                   /\ users' = users]_vars

\* a language update for a stored user, sent with a token signed with a
\* secret that is not the server's, was stopped by the middleware
C13_Witness ==
    /\ last.op = "language"
    /\ ~last.next
    /\ last.token # Undefined
    /\ last.token[1].sig \in ForeignSecrets
    /\ last.token[1].sig # AccessSecret
    /\ \E i \in 1..Len(users) : users[i].id = last.token[1].payload.userId

(***************************************************************************)
(* C14. Every request to POST /api/auth/logout or PUT /api/auth/language   *)
(* that is not authenticated, for a missing Authorization header or for an *)
(* invalid or expired access token, is answered with status 401.           *)
(***************************************************************************)
C14_UnauthenticatedIs401 ==
    (last.op \in {"logout", "language"} /\ ~last.next) => last.status = 401

(***************************************************************************)
(* C15. When a persistence call (findUnique, create) throws while          *)
(* POST /api/auth/register or POST /api/auth/login is served, the endpoint *)
(* answers with status 500 and a generic error message, and not with the   *)
(* 400 or 401 of validation, duplicate-email or invalid-credential         *)
(* failures.                                                               *)
(***************************************************************************)
C15_ExceptionIs500 ==
    (last.op \in {"register", "login"} /\ "threw" \in DOMAIN last) =>
        /\ last.status = 500
        /\ last.status \notin {400, 401}
        /\ last.body = [success |-> FALSE, error |-> "Internal server error"]

(***************************************************************************)
(* C16. Every AuthResult that register, login or refreshToken returns has  *)
(* one of two shapes: success=true with user and token and without error,  *)
(* or success=false with error and without user, token and refreshToken.   *)
(* No result carries both a token and an error.                            *)
(***************************************************************************)
SuccessShape(body) ==
    /\ body.success = TRUE
    /\ {"user", "token"} \subseteq DOMAIN body
    /\ "error" \notin DOMAIN body

FailureShape(body) ==
    /\ body.success = FALSE
    /\ "error" \in DOMAIN body
    /\ DOMAIN body \cap {"user", "token", "refreshToken"} = {}

C16_TaggedResult ==
    last.op \in {"register", "login", "refresh"} =>
        /\ SuccessShape(last.body) \/ FailureShape(last.body)
        /\ ~(SuccessShape(last.body) /\ FailureShape(last.body))
        /\ ~({"token", "error"} \subseteq DOMAIN last.body)
        /\ DOMAIN last.body \subseteq {"success", "user", "token", "refreshToken", "error"}

\* a refresh returned the success shape with its three fields, after a
\* result of the failure shape is what the same token gets once expired
C16_Witness ==
    /\ last.op = "refresh"
    /\ SuccessShape(last.body)
    /\ DOMAIN last.body = {"success", "user", "token"}
    /\ FailureShape(RefreshResult(users, env, last.token[1].payload.exp, last.token[1]))

(***************************************************************************)
(* C17. No response body of the auth routes carries the stored             *)
(* passwordHash or the submitted password: a body has only the fields      *)
(* success, user, token, refreshToken, error and message, its user has     *)
(* only id, email, name, userType and preferredLanguage, and a token's     *)
(* payload has only userId, email, type, iat and exp.                      *)
(***************************************************************************)
PublicUserFields == {"id", "email", "name", "userType", "preferredLanguage"}

C17_NoPasswordInResponses ==
    "body" \in DOMAIN last =>
        /\ DOMAIN last.body \subseteq
              {"success", "user", "token", "refreshToken", "error", "message"}
        /\ "user" \in DOMAIN last.body =>
              /\ DOMAIN last.body.user = PublicUserFields
              /\ \A i \in 1..Len(users) :
                    /\ last.body.user.email # RegisteredPassword(users[i])
                    /\ last.body.user.name # RegisteredPassword(users[i])
        /\ \A token \in Returned(last) :
              DOMAIN token.payload \subseteq {"userId", "email", "type", "iat", "exp"}

\* a login read the stored hash, found the submitted password right and
\* answered with the user
C17_Witness ==
    /\ last.op = "login"
    /\ last.body.success
    /\ \E i \in 1..Len(users) :
          /\ users[i].id = last.body.user.id
          /\ "passwordHash" \in DOMAIN users[i]
          /\ RegisteredPassword(users[i]) = last.password

(***************************************************************************)
(* C18. A language update that passed authenticateToken with a token of    *)
(* user A changes nothing but the preferredLanguage of A's record: the     *)
(* other fields of A, the records of all other users and the number of     *)
(* records stay as they were.                                              *)
(***************************************************************************)
OtherUserFields == {"id", "email", "name", "userType", "passwordHash", "phoneNumber"}

C18_LanguageUpdateFrame ==
    [][(last'.op = "language" /\ last'.next /\ now' = now /\ reg' = reg) =>
          \A header \in Headers, language \in Languages :
              (/\ BearerToken(header) = last'.token
               /\ language = last'.language
               /\ SetLanguage(header, language))
              => /\ Len(users') = Len(users)
                 /\ \A i \in 1..Len(users) :
                       /\ \A f \in OtherUserFields : users'[i][f] = users[i][f]
                       /\ users'[i].preferredLanguage =
                             IF last'.status = 200 /\ users[i].id = header[2].payload.userId
                             THEN language
                             ELSE users[i].preferredLanguage]_vars

\* with two users stored, one of them has changed its language and the
\* other kept its own
C18_Witness ==
    /\ last.op = "language"
    /\ last.status = 200
    /\ Len(users) = 2
    /\ \E i, j \in 1..Len(users) :
          /\ users[i].id = last.user.userId
          /\ users[i].preferredLanguage = last.language
          /\ j # i
          /\ users[j].preferredLanguage # last.language

(***************************************************************************)
(* C19. Whatever operations run, a user record keeps the userType and the  *)
(* email it was created with: a new record gets the submitted values, no   *)
(* step changes them afterwards or removes a record, and every userType is *)
(* VENDOR or BUYER.                                                        *)
(***************************************************************************)
C19_UserTypeAndEmailImmutable ==
    [][users' # users =>
          /\ Len(users') >= Len(users)
          /\ \A i \in 1..Len(users) :
                /\ users'[i].id = users[i].id
                /\ users'[i].userType = users[i].userType
                /\ users'[i].email = users[i].email
          /\ \A i \in 1..Len(users') : users'[i].userType \in {"VENDOR", "BUYER"}
          /\ Len(users') > Len(users) =>
                /\ Len(users') = Len(users) + 1
                /\ \E c \in Calls :
                      /\ reg[c].pc = "create"
                      /\ reg'[c].pc = "idle"
                      /\ users'[Len(users')].userType = reg[c].data.userType
                      /\ users'[Len(users')].email = reg[c].data.email]_vars

\* a record created as a VENDOR is one after its language was updated,
\* under the email its token was issued for
C19_Witness ==
    /\ last.op = "language"
    /\ last.status = 200
    /\ \E i \in 1..Len(users) :
          /\ users[i].id = last.user.userId
          /\ users[i].email = last.user.email
          /\ users[i].userType = "VENDOR"
          /\ users[i].preferredLanguage # LangEn

(***************************************************************************)
(* C20. The language route checks the body's language for being a string   *)
(* of at least 2 characters and for nothing else: on an authenticated      *)
(* request a language that is missing, no string or shorter than 2 is      *)
(* answered with 400 and nothing is written, and any string of at least 2  *)
(* characters, supported or not, is never answered with 400 and is stored  *)
(* as the preferredLanguage of the token's user.  A stored                 *)
(* preferredLanguage can therefore lie outside the supported codes.        *)
(***************************************************************************)
Characters == AlNum \cup {" ", "@", ".", "-", "_", "+", "'"}

StringOfTwoOrMore(v) == Len(v) >= 2 /\ \A i \in 1..Len(v) : v[i] \in Characters

StoredUser(id) == \E i \in 1..Len(users) : users[i].id = id

C20_LanguageLengthCheckOnly ==
    [][(last'.op = "language" /\ last'.next /\ now' = now /\ reg' = reg) =>
          \A header \in Headers, language \in BodyLanguages :
              (/\ BearerToken(header) = last'.token
               /\ language = last'.language
               /\ SetLanguage(header, language))
              => IF StringOfTwoOrMore(language)
                 THEN /\ last'.status # 400
                      /\ StoredUser(last'.user.userId) =>
                            /\ last'.status = 200
                            /\ \A i \in 1..Len(users') :
                                  users'[i].id = last'.user.userId =>
                                      users'[i].preferredLanguage = language
                 ELSE /\ last'.status = 400
                      /\ IsFailure(last'.body)
                      /\ users' = users]_vars

\* a code that is no supported language was accepted and is stored
C20_Witness ==
    /\ last.op = "language"
    /\ last.status = 200
    /\ last.language \notin SupportedLanguages
    /\ \E i \in 1..Len(users) :
          /\ users[i].id = last.user.userId
          /\ users[i].preferredLanguage = last.language
          /\ users[i].preferredLanguage \notin SupportedLanguages

(***************************************************************************)
(* C21. A registration that carries a phoneNumber succeeds only if the     *)
(* phoneNumber has exactly 10 digits once its non-digit characters are     *)
(* stripped; with any other number of digits it fails validation and no    *)
(* user is created, so every stored phoneNumber has 10 digits.             *)
(***************************************************************************)
\* phoneNumber.replace(/\D/g, '')
StripNonDigits(s) == SelectSeq(s, LAMBDA ch : ch \in Digits)

TenDigits(phone) == Len(StripNonDigits(phone)) = 10

C21_PhoneTenDigits ==
    /\ (last.op = "register" /\ last.data.phoneNumber # Undefined /\ last.body.success)
          => TenDigits(last.data.phoneNumber[1])
    /\ \A i \in 1..Len(users) :
          users[i].phoneNumber # Undefined => TenDigits(users[i].phoneNumber[1])

(***************************************************************************)
(* C22. When the client's logout operation completes, whatever became of   *)
(* the server's logout call (a 200, a 401 or 403, no answer at all, a      *)
(* refresh that failed on the way), the context's user is null, the keys   *)
(* authToken, refreshToken and userData are gone from local storage, and   *)
(* isLoading is false.                                                     *)
(***************************************************************************)
\* the context operation k comes back to its caller in this step
Completes(k) ==
    /\ client.calls[k] # NoCall
    /\ client'.calls[k] = NoCall
    /\ client'.mounted

SignedOutState(c) ==
    /\ c.user = Undefined
    /\ c.localStorage.authToken = Undefined
    /\ c.localStorage.refreshToken = Undefined
    /\ c.localStorage.userData = Undefined
    /\ ~c.isLoading

C22_LogoutClearsSession ==
    [][Completes("logout") => SignedOutState(client')]_vars

\* a logout that the server refused has come back, and the session is gone
C22_Witness ==
    /\ client.settled = Some([op |-> "logout", success |-> FALSE])
    /\ SignedOutState(client)
    /\ Len(users) > 0

(***************************************************************************)
(* C23. When a login or a register made from the auth page comes back      *)
(* with success, the client leaves the auth page and shows the dashboard   *)
(* of the user's type: /vendor/dashboard for a VENDOR, /buyer/dashboard    *)
(* for a BUYER.                                                            *)
(***************************************************************************)
\* the answer that call k takes in this step is a success of its route
AuthenticatesWith(k) ==
    /\ Completes(k)
    /\ last.op = k
    /\ last.status \in {200, 201}

ShowsDashboardOf(c, userType) ==
    /\ userType = "VENDOR" =>
          c.location = "/vendor/dashboard" /\ Rendered(c) = "VendorDashboard"
    /\ userType = "BUYER" =>
          c.location = "/buyer/dashboard" /\ Rendered(c) = "BuyerDashboard"
    /\ userType \in {"VENDOR", "BUYER"}

C23_DashboardAfterSignIn ==
    [][\A k \in {"login", "register"} :
          (AuthenticatesWith(k) /\ client.location = "/auth") =>
              ShowsDashboardOf(client', last.body.user.userType)]_vars

\* a vendor has signed up and sees the vendor dashboard
C23_Witness ==
    /\ client.settled = Some([op |-> "register", success |-> TRUE])
    /\ client.user # Undefined
    /\ client.user[1].userType = "VENDOR"
    /\ client.user[1].email = EmailB
    /\ Rendered(client) = "VendorDashboard"

(***************************************************************************)
(* C24. While the client has no user and is not loading, no dashboard is   *)
(* rendered: the location is neither of the dashboards nor /, whatever URL *)
(* the page was opened at; the routes have sent the visitor to /auth.      *)
(***************************************************************************)
Unauthenticated(c) == c.user = Undefined /\ ~c.isLoading

C24_NoDashboardWithoutUser ==
    Unauthenticated(client) =>
        /\ Rendered(client) \notin {"VendorDashboard", "BuyerDashboard"}
        /\ client.location \notin Dashboards \cup {"/"}
        /\ client.location # "/login" => Rendered(client) = "AuthPage"

\* a visitor whose session is gone (its userData is still in storage) has
\* loaded the page and is shown the auth page
C24_Witness ==
    /\ client.mounted
    /\ Unauthenticated(client)
    /\ client.localStorage.userData # Undefined
    /\ client.location = "/auth"
    /\ Rendered(client) = "AuthPage"

(***************************************************************************)
(* C25. When the server rejects a request to a protected route because the *)
(* access token it carries has expired, and local storage holds a refresh  *)
(* token the server accepts, the response interceptor asks                 *)
(* /api/auth/refresh for a new access token (and then stores it and sends  *)
(* the request again): the call does not come back to its caller with the  *)
(* rejection.                                                              *)
(***************************************************************************)
\* a token the server signed as an access token, past its expiry
ExpiredAccessToken(token) ==
    /\ token.sig = AccessSecret
    /\ token.payload.exp <= now

\* the answer to call k has arrived: a rejection of its expired token,
\* while storage holds a refresh token that is good
RejectedAsExpired(k) ==
    /\ client.calls[k].pc = "sent"
    /\ last.op = k
    /\ last.status \notin 200..299
    /\ client.calls[k].header # Undefined
    /\ ExpiredAccessToken(client.calls[k].header[2])
    /\ client.localStorage.refreshToken # Undefined
    /\ PassesRefreshToken(client.localStorage.refreshToken[1])

C25_ExpiredTokenRefreshed ==
    [][\A k \in ProtectedOps :
          (RejectedAsExpired(k) /\ client'.calls[k] # client.calls[k]) =>
              client'.calls[k].pc = "refreshing"]_vars

(***************************************************************************)
(* C26. The refresh-and-retry handling of the response interceptor ends:   *)
(* for one call the original request is sent at most twice and the refresh *)
(* request at most once, and the answer to the request that was sent again *)
(* goes back to the caller whatever its status, a second 401 included.     *)
(***************************************************************************)
InFlight(c, k) == c.calls[k] # NoCall

\* the answer to the second sending of call k's request is there
RetryAnswered(k) ==
    /\ client.calls[k].pc = "sent"
    /\ client.calls[k].sends = 2
    /\ last.op = k

C26_RefreshAndRetryOnce ==
    [][\A k \in ClientOps :
          /\ InFlight(client', k) =>
                client'.calls[k].sends <= 2 /\ client'.calls[k].refreshes <= 1
          /\ (InFlight(client, k) /\ RetryAnswered(k)
                 /\ client'.calls[k] # client.calls[k]) => ~InFlight(client', k)]_vars

\* a login with the wrong password was refreshed for, sent again, and got
\* its second 401
C26_Witness ==
    /\ InFlight(client, "login")
    /\ RetryAnswered("login")
    /\ client.calls["login"].refreshes = 1
    /\ last.status = 401

(***************************************************************************)
(* C27. A registration that fails leaves the user store as it was: a step  *)
(* of register that adds a record to the store is the step of a call that  *)
(* returns success, so that no call that returns success = false           *)
(* (validation, duplicate email, server configuration, server error) has   *)
(* persisted anything.                                                     *)
(***************************************************************************)
C27_FailedRegisterWritesNothing ==
    [][users' # users => (last'.op = "register" /\ last'.body.success)]_vars

(***************************************************************************)
(* C28. A refresh token is never taken for an access token: authenticate-  *)
(* Token rejects every refresh token that register or login has issued,    *)
(* under every setting of the two secrets, equal ones included.            *)
(***************************************************************************)
C28_RefreshTokenIsNoAccessToken ==
    (last.op \in {"register", "login"} /\ last.body.success) =>
        ~PassesAuthenticateToken(last.body.refreshToken)

(***************************************************************************)
(* C29. Whenever the context's user is not null, local storage holds an    *)
(* authToken and a userData entry that describes that same user, after     *)
(* every sequence of page load, login, register, logout, language update   *)
(* and refresh handling of the response interceptor.                       *)
(***************************************************************************)
C29_UserBackedByStorage ==
    client.user # Undefined =>
        /\ client.localStorage.authToken # Undefined
        /\ client.localStorage.userData # Undefined
        /\ client.localStorage.userData[1] = [json |-> client.user[1]]

(***************************************************************************)
(* Requests during startup.  The routes call the service as soon as the    *)
(* server listens.  A method that reaches this.prisma.user while this.prisma*)
(* is unassigned throws a TypeError inside its try block, and its catch     *)
(* answers as for a persistence call that rejected.                         *)
(***************************************************************************)
Listening == startup.step = "listening"

\* the callback of import('../index.js') assigns this.prisma
ImportResolves ==
    /\ ~startup.prisma
    /\ startup.step # "exited"
    /\ startup' = [startup EXCEPT !.prisma = TRUE]
    /\ UNCHANGED <<client, env, users, reg, now, ticks, last>>

\* await redis.connect() returns
RedisConnected ==
    /\ startup.step = "redis"
    /\ startup' = [startup EXCEPT !.step = "database"]
    /\ UNCHANGED <<client, env, users, reg, now, ticks, last>>

\* await prisma.$connect() returns and server.listen is called
DatabaseConnected ==
    /\ startup.step = "database"
    /\ startup' = [startup EXCEPT !.step = "listening"]
    /\ UNCHANGED <<client, env, users, reg, now, ticks, last>>

\* one of the two connections fails: process.exit(1)
StartFails ==
    /\ startup.step \in {"redis", "database"}
    /\ startup' = [startup EXCEPT !.step = "exited"]
    /\ UNCHANGED <<client, env, users, reg, now, ticks, last>>

\* register reaches the service with its handle, or is turned down by the
\* route's schema before the service is called
RegisterServed(data) ==
    /\ Listening
    /\ startup.prisma \/ Validated[data] # {}
    /\ RegisterCheck(1, data)

RegisterCreateServed ==
    /\ Listening
    /\ RegisterCreate(1)

\* register reaches this.prisma.user.findUnique without a handle
RegisterUnready(data) ==
    /\ Listening
    /\ ~startup.prisma
    /\ RegisterFindThrows(1, data)

\* login reaches the service with its handle, or is turned down by the
\* route for a missing field
LoginServed(email, password) ==
    /\ Listening
    /\ startup.prisma \/ email = <<>> \/ password = <<>>
    /\ Login(email, password)

\* login reaches this.prisma.user.findUnique without a handle
LoginUnready(email, password) ==
    /\ Listening
    /\ ~startup.prisma
    /\ LoginFindThrows(email, password)

NextStartup ==
    \/ ImportResolves
    \/ RedisConnected
    \/ DatabaseConnected
    \/ StartFails
    \/ \E data \in SessionInputs : RegisterServed(data)
    \/ RegisterCreateServed
    \/ \E data \in SessionInputs : RegisterUnready(data)
    \/ \E email \in LoginEmails, password \in LoginPasswords :
          LoginServed(email, password)
    \/ \E email \in LoginEmails, password \in LoginPasswords :
          LoginUnready(email, password)

InitStartup ==
    /\ Process
    /\ startup = Loaded

SpecStartup == InitStartup /\ [][NextStartup]_vars

(***************************************************************************)
(* C30: an AuthService constructed without an injected client has its      *)
(* persistence handle for every request it serves: no register or login     *)
(* call runs before the dynamic import has assigned this.prisma, so no      *)
(* request is answered with a failure that comes from the missing handle.   *)
(* In SpecStartup a response carries threw only when the service reached    *)
(* this.prisma without a handle.                                            *)
(***************************************************************************)
FailedOnHandle(response) ==
    /\ response.op \in {"register", "login"}
    /\ "threw" \in DOMAIN response

C30_HandleBeforeRequests == ~FailedOnHandle(last)

====
